---- MODULE Spec2Model ----
(***************************************************************************)
(* Model of app.py, the Streamlit chat client.  One session is modelled:   *)
(* st.session_state (messages, client), the four sidebar widgets, and the  *)
(* outputs of the latest script run.  Every action is one run of main(),   *)
(* triggered by exactly one widget.                                        *)
(*                                                                         *)
(* Python's None is the empty tuple and a present value x is <<x>>.        *)
(* Temperatures are in tenths (the slider's step is 0.1): 7 stands for 0.7.*)
(***************************************************************************)
EXTENDS Integers, Sequences, FiniteSets, TLC

\* ------------------------------------------------------------------ bounds
\* longest Conversation Store the model lets a submission produce
MaxMessages == 4
\* number of client handles the model lets one session build
MaxClients == 3

\* ------------------------------------------------------------ input domains
\* texts typed into st.chat_input (never empty: the walrus test is truthy)
Prompts == {"Hello", "Again"}
\* texts returned as response.choices[0].message.content
Replies == {"Hi there", "Sure"}
\* values typed into the "LLM API URL" field; the first is the default
Urls == {"http://localhost:11434/v1", "http://other:8000/v1"}
\* values typed into the "Model Name" field; the first is the default
Models == {"llama2", "mistral"}
\* values typed into the "API Key" field; the first is the default
ApiKeys == {"dummy", "secret"}
\* slider bounds and default, in tenths
SliderMin == 0
SliderMax == 20
SliderDefault == 7
\* default of get_llm_response's temperature parameter, in tenths
DefaultTemperature == 7
\* slider positions exercised: minimum, default, maximum
SliderValues == {SliderMin, SliderDefault, SliderMax}
\* exception classes the Completion Requester can raise: the client
\* library's own (an unreachable endpoint) and the IndexError of choices[0]
\* on a response without choices; all derive from Python's Exception
ApiErrors == {"APIConnectionError"}
ExceptionClasses == ApiErrors \cup {"IndexError"}

None == <<>>
Some(x) == <<x>>

VARIABLES
    messages,       \* st.session_state.messages
    client,         \* st.session_state.client: None or Some(handle)
    llm_url,        \* value of the "LLM API URL" text input
    model_name,     \* value of the "Model Name" text input
    api_key,        \* value of the "API Key" text input
    temperature,    \* value of the "Temperature" slider, in tenths
    created,        \* number of OpenAI objects constructed so far
    trigger,        \* the widget that caused the latest script run
    prompt,         \* st.chat_input's value in the latest run
    request,        \* arguments of get_llm_response in the latest run
    error_message,  \* inline error rendered in the latest run
    notice,         \* st.success / st.error notice rendered in the latest run
    escaped,        \* an exception left main() in the latest run
    dropped,        \* messages the latest run removed from the store
    history,        \* submissions since the store was last emptied
    updated         \* handle built by the latest Update Settings

vars == <<messages, client, llm_url, model_name, api_key, temperature,
          created, trigger, prompt, request, error_message, notice,
          escaped, dropped, history, updated>>

widgets == <<llm_url, model_name, api_key, temperature>>

\* ---------------------------------------------------------------- helpers
Message(role, content) == [role |-> role, content |-> content]

\* OpenAI(base_url=..., api_key=...): a fresh object; id is its identity
create_openai_client(base_url, key) ==
    [id |-> created + 1, base_url |-> base_url, api_key |-> key]

\* outcomes of client.chat.completions.create(...) followed by
\* response.choices[0].message.content
Outcomes ==
    [kind : {"ok"}, content : Replies, exc : {"-"}]
        \cup [kind : {"raise"}, content : {"-"}, exc : ExceptionClasses]

\* variant: except openai.APIError, which lets an IndexError through
CaughtApiErrors(exc) == exc \in ApiErrors

\* except Exception: every class the requester raises is caught
Caught(exc) == exc \in ExceptionClasses

\* variant: a handle is built on every submission
EnsureClientAlways == Some(create_openai_client(llm_url, api_key))

\* line 163-164: build a handle only when none is stored
EnsureClient ==
    IF client = None THEN Some(create_openai_client(llm_url, api_key))
    ELSE client

\* variant: the handle is rebuilt only when a field differs from it
UpdateClientIfChanged ==
    IF client # None /\ client[1].base_url = llm_url
                     /\ client[1].api_key = api_key
    THEN client
    ELSE Some(create_openai_client(llm_url, api_key))

\* line 141: Update Settings stores a new handle, whatever was there
UpdateClient == Some(create_openai_client(llm_url, api_key))

\* variant: a retry overwrites the orphaned user turn of a failed request
AppendUserOverOrphan(msgs, p) ==
    IF msgs # <<>> /\ msgs[Len(msgs)].role = "user"
    THEN [msgs EXCEPT ![Len(msgs)] = [role |-> "user", content |-> p]]
    ELSE Append(msgs, [role |-> "user", content |-> p])

\* line 167
AppendUser(msgs, p) == Append(msgs, Message("user", p))

\* variant: the reply is inserted at the head of the store
AppendAssistantFirst(msgs, content) ==
    <<[role |-> "assistant", content |-> content]>> \o msgs

\* lines 186-192: the reply is appended after the user turn
AppendAssistant(msgs, content) == Append(msgs, Message("assistant", content))

\* variant: the handler takes the user turn back
RollBackUser(msgs) == SubSeq(msgs, 1, Len(msgs) - 1)

\* variant: the handler stores the error text as an assistant turn
AppendErrorAsAssistant(msgs) ==
    Append(msgs, [role |-> "assistant", content |-> "Error"])

\* lines 194-200: the handler only renders; the store is left as it is
AfterException(msgs) == msgs

\* variant: only the latest exchange is removed
ClearLastExchange(msgs) == SubSeq(msgs, 1, Len(msgs) - 2)

\* line 146
ClearedMessages(msgs) == <<>>

\* variant: only the new user turn is sent
RequestLastMessage(msgs) == <<msgs[Len(msgs)]>>

\* variant: the temperature argument is left to its default
RequestDefaultTemperature == DefaultTemperature

\* lines 179-184: the keyword arguments of get_llm_response
RequestClient(c) == c
RequestMessages(msgs) == msgs
RequestTemperature == temperature
RequestModel == model_name

\* f"Error: {str(e)}"
ErrorText(exc) == <<"Error: ", exc>>

\* ------------------------------------------------------------------- Init
Init ==
    /\ messages = <<>>
    /\ client = None
    /\ llm_url = "http://localhost:11434/v1"
    /\ model_name = "llama2"
    /\ api_key = "dummy"
    /\ temperature = SliderDefault
    /\ created = 0
    /\ trigger = "load"
    /\ prompt = None
    /\ request = None
    /\ error_message = None
    /\ notice = "none"
    /\ escaped = FALSE
    /\ dropped = 0
    /\ history = <<>>
    /\ updated = None

\* what a run that reaches neither button body nor the chat body renders
NoOutputs ==
    /\ prompt' = None
    /\ request' = None
    /\ error_message' = None
    /\ escaped' = FALSE

\* a run that leaves every stored message in place
NothingDropped == dropped' = 0

\* ---------------------------------------------------------------- actions
\* a run caused by editing one sidebar widget: no button, no chat input
EditUrl ==
    \E u \in Urls \ {llm_url} :
        /\ llm_url' = u
        /\ trigger' = "llm_url"
        /\ notice' = "none"
        /\ NoOutputs
        /\ NothingDropped
        /\ UNCHANGED <<messages, client, model_name, api_key, temperature,
                       created, history, updated>>

EditModel ==
    \E m \in Models \ {model_name} :
        /\ model_name' = m
        /\ trigger' = "model_name"
        /\ notice' = "none"
        /\ NoOutputs
        /\ NothingDropped
        /\ UNCHANGED <<messages, client, llm_url, api_key, temperature,
                       created, history, updated>>

EditKey ==
    \E k \in ApiKeys \ {api_key} :
        /\ api_key' = k
        /\ trigger' = "api_key"
        /\ notice' = "none"
        /\ NoOutputs
        /\ NothingDropped
        /\ UNCHANGED <<messages, client, llm_url, model_name, temperature,
                       created, history, updated>>

MoveSlider ==
    \E t \in SliderValues \ {temperature} :
        /\ SliderMin <= t /\ t <= SliderMax
        /\ temperature' = t
        /\ trigger' = "temperature"
        /\ notice' = "none"
        /\ NoOutputs
        /\ NothingDropped
        /\ UNCHANGED <<messages, client, llm_url, model_name, api_key,
                       created, history, updated>>

\* lines 140-142
UpdateSettings ==
    /\ created < MaxClients
    /\ client' = UpdateClient
    /\ created' = created + 1
    /\ updated' = client'
    /\ trigger' = "Update Settings"
    /\ notice' = "Settings updated!"
    /\ NoOutputs
    /\ NothingDropped
    /\ UNCHANGED <<messages, widgets, history>>

\* lines 145-147: the store is emptied and st.rerun() starts a run in which
\* no widget fired
ClearChat ==
    /\ messages' = ClearedMessages(messages)
    /\ dropped' = Len(messages) - Len(messages')
    /\ history' = IF messages' = <<>> THEN <<>> ELSE history
    /\ trigger' = "Clear Chat"
    /\ notice' = "none"
    /\ NoOutputs
    /\ UNCHANGED <<client, widgets, created, updated>>

\* lines 161-200 with one prompt and one outcome of the request
Submit(p, out) ==
    LET c == EnsureClient
        sent == AppendUser(messages, p)
    IN  /\ client' = c
        /\ created' = IF c = client THEN created ELSE created + 1
        /\ prompt' = Some(p)
        /\ request' = Some([client |-> RequestClient(c[1]),
                            model |-> RequestModel,
                            messages |-> RequestMessages(sent),
                            temperature |-> RequestTemperature])
        /\ trigger' = "chat_input"
        /\ NothingDropped
        /\ IF out.kind = "ok"
           THEN /\ messages' = AppendAssistant(sent, out.content)
                /\ error_message' = None
                /\ notice' = "none"
                /\ escaped' = FALSE
                /\ history' = Append(history,
                                [prompt |-> p, ok |-> TRUE,
                                 reply |-> Some(out.content)])
           ELSE /\ history' = Append(history,
                                [prompt |-> p, ok |-> FALSE, reply |-> None])
                /\ IF Caught(out.exc)
                   THEN /\ messages' = AfterException(sent)
                        /\ error_message' = Some(ErrorText(out.exc))
                        /\ notice' = "Failed to get response."
                        /\ escaped' = FALSE
                   ELSE /\ messages' = sent
                        /\ error_message' = None
                        /\ notice' = "none"
                        /\ escaped' = TRUE
        /\ UNCHANGED <<widgets, updated>>

SubmitMessage ==
    \E p \in Prompts, out \in Outcomes :
        /\ Len(messages) + (IF out.kind = "ok" THEN 2 ELSE 1) <= MaxMessages
        /\ Submit(p, out)

Next ==
    \/ EditUrl
    \/ EditModel
    \/ EditKey
    \/ MoveSlider
    \/ UpdateSettings
    \/ ClearChat
    \/ SubmitMessage

Spec == Init /\ [][Next]_vars

\* ------------------------------------------------------- observation terms
IsPrefix(s, t) == Len(s) <= Len(t) /\ SubSeq(t, 1, Len(s)) = s

AllOk(h) == \A i \in 1..Len(h) : h[i].ok
NumOk(h) == Cardinality({i \in 1..Len(h) : h[i].ok})
NumFailed(h) == Cardinality({i \in 1..Len(h) : ~h[i].ok})

\* the latest run was a submission
SubmittedJustNow == trigger = "chat_input" /\ history # <<>>
\* the latest run was a submission whose completion request raised
FailedJustNow == SubmittedJustNow /\ ~history[Len(history)].ok
\* this step is a submission of p whose completion request raised
FailedStep(p) ==
    history' = Append(history, [prompt |-> p, ok |-> FALSE, reply |-> None])
\* this step is a submission
SubmitStep == trigger' = "chat_input" /\ Len(history') = Len(history) + 1

\* ------------------------------------------------------------------ claims
\* C1: from an empty store, after N submissions that all succeeded and no
\* clear in between, the store has 2N messages, and its k-th pair is the
\* k-th submitted text as a user message followed by the k-th reply as an
\* assistant message.
C1_SuccessfulSubmissionsAlternate ==
    AllOk(history) =>
        /\ Len(messages) = 2 * Len(history)
        /\ \A k \in 1..Len(history) :
            /\ messages[2 * k - 1] = Message("user", history[k].prompt)
            /\ messages[2 * k] = Message("assistant", history[k].reply[1])

C1_Witness ==
    /\ SubmittedJustNow
    /\ AllOk(history)
    /\ Len(history) = 2
    /\ history[1].prompt # history[2].prompt
    /\ history[1].reply # history[2].reply

\* C2: a submission whose completion request raises leaves the store equal
\* to the store before it with exactly the user message appended: no
\* assistant message, no rollback.
C2_FailedSubmissionAppendsOnlyUser ==
    [][\A p \in Prompts :
          FailedStep(p) => messages' = Append(messages, Message("user", p))]_vars

C2_Witness ==
    /\ FailedJustNow
    /\ error_message # None
    /\ Len(messages) = 3
    /\ messages[2].role = "assistant"

\* C3 as stated: right after a failed completion request the store length
\* is odd.
C3_OddAfterFailure ==
    FailedJustNow => Len(messages) % 2 = 1

\* C3 as amended: right after a failed completion request the store holds
\* two messages per successful submission and one per failed submission
\* since the last clear, so its length is odd exactly when the number of
\* failed submissions since the last clear is odd.
C3_ParityFollowsFailures ==
    FailedJustNow =>
        /\ Len(messages) = 2 * NumOk(history) + NumFailed(history)
        /\ (Len(messages) % 2 = 1) <=> (NumFailed(history) % 2 = 1)

C3_Witness ==
    /\ FailedJustNow
    /\ NumFailed(history) = 2
    /\ NumOk(history) = 1
    /\ Len(messages) = 4

\* C4: Clear Chat leaves the store empty whatever it held, and the
\* submission that follows it leaves only its own user message, followed
\* by its reply when the request succeeded.
C4_ClearEmptiesStore ==
    [][/\ trigger' = "Clear Chat" =>
            /\ messages' = <<>>
            /\ dropped' = Len(messages)
       /\ (trigger = "Clear Chat" /\ SubmitStep) =>
            /\ messages = <<>>
            /\ Len(history') = 1
            /\ messages' =
                 IF history'[1].ok
                 THEN <<Message("user", prompt'[1]),
                        Message("assistant", history'[1].reply[1])>>
                 ELSE <<Message("user", prompt'[1])>>]_vars

C4_Witness ==
    /\ trigger = "Clear Chat"
    /\ dropped = 4
    /\ messages = <<>>

\* C5: Update Settings stores a handle that did not exist before, bound to
\* the URL and key shown in the fields, also when they equal the old
\* handle's; a completion request made while that handle is the latest
\* update goes through it.
C5_UpdateReplacesClient ==
    [][/\ trigger' = "Update Settings" =>
            /\ client' # None
            /\ client' # client
            /\ client'[1].id > created
            /\ client'[1].base_url = llm_url
            /\ client'[1].api_key = api_key
            /\ widgets' = widgets
       /\ (request' # None /\ updated' # None) =>
            request'[1].client = updated'[1]]_vars

C5_Witness ==
    /\ request # None
    /\ updated # None
    /\ created = 2
    /\ request[1].client.id = 2
    /\ request[1].client.base_url = "http://other:8000/v1"

\* C6: the temperature handed to the requester is the slider's value at
\* that submission and lies in [0.0, 2.0], whether or not Update Settings
\* was ever pressed.
C6_TemperatureIsSliderValue ==
    request # None =>
        /\ request[1].temperature = temperature
        /\ SliderMin <= request[1].temperature
        /\ request[1].temperature <= SliderMax

C6_Witness ==
    /\ request # None
    /\ updated = None
    /\ request[1].temperature = SliderMax

\* C7: every step leaves the old store as a prefix of the new one, except
\* Clear Chat, which leaves it empty; Update Settings and the widget edits
\* leave it as it is.
C7_StoreAppendOnly ==
    [][/\ IsPrefix(messages, messages')
            \/ (trigger' = "Clear Chat" /\ messages' = <<>>)
       /\ SubmitStep => IsPrefix(messages, messages')
       /\ trigger' \notin {"chat_input", "Clear Chat"} =>
            messages' = messages]_vars

C7_Witness ==
    /\ SubmittedJustNow
    /\ Len(messages) = 3
    /\ NumFailed(history) = 1
    /\ history[Len(history)].ok

\* C8 as stated: after a failed submission no exception has left main, an
\* error is displayed, and the client handle and the configuration are as
\* they were before the submission.
C8_FailureLeavesClientUnchanged ==
    [][\A p \in Prompts :
          FailedStep(p) =>
            /\ ~escaped'
            /\ error_message' # None
            /\ client' = client
            /\ widgets' = widgets]_vars

\* C8 as amended: after a failed submission no exception has left main, an
\* error is displayed, the configuration is unchanged, a handle that was
\* present before the submission is unchanged (when none was present the
\* handle the submission built is stored), and submitting, updating and
\* clearing are possible again.
C8_FailureIsContained ==
    /\ [][\A p \in Prompts :
            FailedStep(p) =>
                /\ ~escaped'
                /\ error_message' # None
                /\ notice' = "Failed to get response."
                /\ client # None => client' = client
                /\ client = None =>
                     client' = Some([id |-> created + 1,
                                     base_url |-> llm_url,
                                     api_key |-> api_key])
                /\ widgets' = widgets]_vars
    /\ [](FailedJustNow =>
            /\ ~escaped
            /\ ENABLED ClearChat
            /\ created < MaxClients => ENABLED UpdateSettings
            /\ Len(messages) < MaxMessages => ENABLED SubmitMessage)

C8_Witness ==
    /\ FailedJustNow
    /\ error_message = Some(ErrorText("IndexError"))
    /\ ~escaped
    /\ updated # None
    /\ client = updated

\* C9: the messages handed to the requester are the whole store after the
\* new user message was appended: non-empty, ending in the submitted user
\* message, and starting with every earlier message in order, orphaned
\* user messages included.
C9_RequestCarriesWholeStore ==
    [][SubmitStep =>
        /\ request' # None
        /\ request'[1].messages # <<>>
        /\ request'[1].messages =
             Append(messages, Message("user", prompt'[1]))
        /\ IsPrefix(request'[1].messages, messages')]_vars

C9_Witness ==
    /\ request # None
    /\ Len(request[1].messages) = 3
    /\ request[1].messages[1].role = "user"
    /\ request[1].messages[2].role = "user"
    /\ ~history[1].ok

\* C10: the handle is absent at start; it appears only through Update
\* Settings or through a submission made while it is absent, built from
\* the fields as shown; once present only Update Settings replaces it, and
\* it never becomes absent.
C10_ClientLifecycle ==
    /\ client = None
    /\ [][/\ client # None => client' # None
          /\ client' # client =>
               \/ trigger' = "Update Settings"
               \/ /\ client = None
                  /\ SubmitStep
                  /\ client' = Some([id |-> created + 1,
                                     base_url |-> llm_url,
                                     api_key |-> api_key])
          /\ (SubmitStep /\ client = None) => client' # None]_vars

C10_Witness ==
    /\ client # None
    /\ updated = None
    /\ client[1].base_url # llm_url
    /\ client[1].api_key # api_key
    /\ trigger = "Clear Chat"
    /\ dropped = 3

====
